---- MODULE Spec2Model ----
(***************************************************************************)
(* orvium-tools: the deposit import pipeline (import-deposit / import.ts), *)
(* the deposit export pipeline (export-deposit), the user summary fetcher  *)
(* and the three command-line entry points that call them.                 *)
(*                                                                         *)
(* One behaviour of Spec is one run of one entry point.  Every remote      *)
(* response and every input (meta.json, the manuscript file, the fetched   *)
(* deposit, the content of the target directory) is chosen                 *)
(* nondeterministically.  One behaviour of SpecConcurrent is two calls of  *)
(* exportDeposit in flight at once.                                        *)
(***************************************************************************)
EXTENDS Integers, Sequences, FiniteSets, TLC

VARIABLES
    prog,       \* which entry point runs: "import", "export" or "summary"
    argv,       \* the positional arguments given on the command line
    inp,        \* the inputs of the run (local files, fetched deposit)
    pc,         \* position of the run
    reqs,       \* HTTP requests issued so far, in order
    settled,    \* responses/failures of those requests, in order
    outcome,    \* the promise returned by the pipeline function
    exitCode,   \* process.exitCode: what the process ends with once pc = "exited"
    logs,       \* console output of the orchestrators, in order
    depositId,  \* the id importSingleDeposit returned
    fs,         \* the export target directory: file name -> file
    archive,    \* the archiver instance of exportDeposit
    unlinks,    \* paths handed to fs.unlinkSync so far, in order
    fetched,    \* what the fetch helper returned (depositPopulated, the summary)
    trace,      \* the stages of exportDeposit begun and ended so far, in order
    manuscriptMetadata, \* what createManuscriptMetadata returned from its stat
    jobs,       \* concurrent exports: the state of each exportDeposit invocation
    disk        \* concurrent exports: <<directory, file name>> -> file

vars == <<prog, argv, inp, pc, reqs, settled, outcome, exitCode, logs,
          depositId, fs, archive, unlinks, fetched, trace, manuscriptMetadata,
          jobs, disk>>

----------------------------------------------------------------------------
(* Values *)

Programs == {"import", "export", "summary"}

\* import: both importers of the repository
Impls == {"import-deposit", "import.ts"}

\* the state of <directory>/meta.json as loadJsonFile and the deposit
\* construction see it
MetaStates == {"absent", "unreadable", "badJson", "noAuthors", "noManuscript", "ok"}

\* the id of the deposit being exported, and the id the platform assigns
ExportId == "E1"
NewId == "D1"

MetaName == "meta.json"
ZipName == "deposit_E1.zip"

\* values the platform may return in publicationFile.filename / .description
RemoteNames == {"X.docx", MetaName, ZipName}
DisplayNames == {"X.docx", "Y.docx", MetaName}
Paths == RemoteNames \cup DisplayNames

\* files of the target directory
Absent == [kind |-> "absent", mf |-> ""]
MetaDoc(m) == [kind |-> "meta", mf |-> m]    \* JSON.stringify(deposit), manuscript.filename = m
Bytes == [kind |-> "bytes", mf |-> ""]       \* the complete downloaded manuscript
Partial == [kind |-> "partial", mf |-> ""]   \* a download that was opened and not completed
Stale == [kind |-> "stale", mf |-> ""]       \* a file that was there before the export
ZipFile == [kind |-> "zip", mf |-> ""]       \* the archive written through `output`

Exists(f, p) == f[p].kind # "absent"

NoArchive == [state |-> "none", queue |-> <<>>, entries |-> <<>>]

----------------------------------------------------------------------------
(* Requests *)

NoBody == [type |-> "none"]

Req(kind, method, target, cred) ==
    [kind |-> kind, method |-> method, target |-> target, cred |-> cred, body |-> NoBody]

WithBody(req, body) == [req EXCEPT !.body = body]

\* obj.k: the property, or undefined when the object has none
Get(obj, k) == IF k \in DOMAIN obj THEN obj[k] ELSE "undefined"

\* the InputAuthor records a meta.json may list
InputAuthors ==
    { [author_id |-> "1", user_id |-> "null", first_name |-> "Ada", middle_name |-> "K",
       last_name |-> "Lovelace", orcid |-> "0000-0001", date_modified |-> "2024-01-01"],
      [author_id |-> "2", user_id |-> "7", first_name |-> "Lovelace", middle_name |-> "",
       last_name |-> "Ada", orcid |-> "undefined", date_modified |-> "undefined"] }

\* the longest author list of a meta.json
MaxAuthors == 2

AuthorLists == UNION { [1..n -> InputAuthors] : n \in 0..MaxAuthors }

\* an author transform that carries the source's identifier along
transformAuthorKeepsId(inputAuthor) ==
    [firstName |-> inputAuthor.first_name,
     lastName |-> inputAuthor.last_name,
     orcid |-> inputAuthor.orcid,
     author_id |-> inputAuthor.author_id]

transformAuthor(inputAuthor) ==
    [firstName |-> Get(inputAuthor, "first_name"),
     lastName |-> Get(inputAuthor, "last_name"),
     orcid |-> Get(inputAuthor, "orcid")]

\* Array.prototype.map: one result per element, in the order of the elements
MapAuthors(authors) == [i \in 1..Len(authors) |-> transformAuthor(authors[i])]

\* the community given on the command line
CommunityArg == "ArgCommunity"

\* import.ts: the depositMetadata object built by importDeposit
DepositMetadata(metaData, community) ==
    [title |-> metaData.title,
     abstract |-> metaData.abstract,
     community |-> community,
     authors |-> MapAuthors(metaData.authors),
     disciplines |-> metaData.disciplines,
     keywords |-> metaData.keywords]

\* import-deposit: the deposit object built by importDeposit
Deposit(metaData, community) ==
    [title |-> metaData.title,
     abstract |-> metaData.abstract,
     community |-> community,
     authors |-> MapAuthors(metaData.authors),
     disciplines |-> metaData.disciplines,
     keywords |-> metaData.keywords,
     manuscript |-> [filename |-> metaData.filename]]

\* an importSingleDeposit that posts the deposit as it is
KeepManuscript(deposit) == deposit

\* (({ manuscript, ...rest }) => rest)(deposit)
WithoutManuscript(deposit) == [k \in DOMAIN deposit \ {"manuscript"} |-> deposit[k]]

\* the object posted by importSingleDeposit
DepositBody(metaData, community) ==
    IF metaData.impl = "import-deposit"
    THEN WithoutManuscript(Deposit(metaData, community))
    ELSE DepositMetadata(metaData, community)

CreateReq(metaData, community) ==
    WithBody(Req("create", "POST", <<"API", "deposits", "importBasicDeposit">>, TRUE),
             DepositBody(metaData, community))

\* the sizes fs.statSync may report for the manuscript file
FileSizes == {0, 1024}

NoMetadata == [type |-> "none"]

\* what createManuscriptMetadata returns for a file of this name and size
ManuscriptMetadata(name, size) ==
    [type |-> "manuscriptMetadata", file |-> [name |-> name, size |-> size]]

NegotiateReq(id, metadata) ==
    WithBody(Req("negotiate", "POST",
                 <<"API", "deposits", id, "files", "isMainFile=true", "replacePDF=false">>, TRUE),
             metadata)

\* a transfer that announces another length than the stat reported
ContentLengthOther(metadata) == IF metadata.file.size = 0 THEN 1024 ELSE 0

\* 'Content-Length': manuscriptMetadata.file.size
ContentLength(metadata) == metadata.file.size

\* the PUT sends the file stream and announces its length
UploadBody(metadata) == [type |-> "stream", contentLength |-> ContentLength(metadata)]

\* response.data of the upload negotiation: an UploadSignedUrlResponse, or
\* one that lacks the signedUrl
NegotiateData(status) ==
    IF status = "ok"
    THEN [signedUrl |-> "SIGNED", fileMetadata |-> "FM", isMainFile |-> "true", replacePDF |-> "false"]
    ELSE [fileMetadata |-> "FM", isMainFile |-> "true", replacePDF |-> "false"]

\* a transfer that sends the two credential headers to the signed target
TransferReqWithCredentials(uploadSignedUrlResponse, metadata) ==
    WithBody(Req("transfer", "PUT",
                 IF "signedUrl" \in DOMAIN uploadSignedUrlResponse
                 THEN <<uploadSignedUrlResponse.signedUrl>>
                 ELSE <<"undefined">>,
                 TRUE),
             UploadBody(metadata))

\* uploadSignedUrlResponse.signedUrl is undefined when the response had none
TransferReq(uploadSignedUrlResponse, metadata) ==
    WithBody(Req("transfer", "PUT",
                 IF "signedUrl" \in DOMAIN uploadSignedUrlResponse
                 THEN <<uploadSignedUrlResponse.signedUrl>>
                 ELSE <<"undefined">>,
                 FALSE),
             UploadBody(metadata))

\* a confirmation that sends the negotiation response as it came
KeepSignedUrl(uploadSignedUrlResponse) == uploadSignedUrlResponse

\* const { signedUrl, ...manuscriptImportedMetadata } = uploadSignedUrlResponse
StripSignedUrl(uploadSignedUrlResponse) ==
    [k \in DOMAIN uploadSignedUrlResponse \ {"signedUrl"} |-> uploadSignedUrlResponse[k]]

ConfirmReq(id, uploadSignedUrlResponse) ==
    WithBody(Req("confirm", "PATCH", <<"API", "deposits", id, "files", "confirm">>, TRUE),
             StripSignedUrl(uploadSignedUrlResponse))

\* a fetch that sends no credential header
FetchReqNoCredentials(id) == Req("fetch", "GET", <<"API", "deposits", id>>, FALSE)

FetchReq(id) == Req("fetch", "GET", <<"API", "deposits", id>>, TRUE)

LocationReq(id, filename) ==
    Req("location", "GET", <<"API", "deposits", id, "files", filename>>, TRUE)

DownloadReq == Req("download", "GET", <<"LOCATION">>, FALSE)

SummaryReq(orcid) == Req("summary", "GET", <<"API", "users", "profile", orcid, "summary">>, TRUE)

Res(kind, status) == [kind |-> kind, status |-> status]

Kinds(s) == [i \in 1..Len(s) |-> s[i].kind]

----------------------------------------------------------------------------
(* Command line *)

ImportArgv == {"none", "directoryOnly", "both"}
ExportArgv == {"none", "idOnly", "both"}
\* summary: no argument, strings that are no ORCID (a word, a wrong last
\* character, a missing hyphen), an ORCID ending in x, X or a digit
SummaryArgv ==
    {"none", "notOrcid", "0000-0002-1825-009Y", "00000002-1825-0097",
     "0000-0002-1825-009x", "0000-0002-1825-009X", "0000-0002-1825-0097"}

\* the characters of a command-line argument
Chars(a) ==
    LET head == <<"0", "0", "0", "0", "-", "0", "0", "0", "2", "-", "1", "8", "2", "5", "-", "0", "0", "9">>
    IN CASE a = "0000-0002-1825-009x" -> Append(head, "x")
         [] a = "0000-0002-1825-009X" -> Append(head, "X")
         [] a = "0000-0002-1825-0097" -> Append(head, "7")
         [] a = "0000-0002-1825-009Y" -> Append(head, "Y")
         [] a = "00000002-1825-0097" ->
                <<"0", "0", "0", "0", "0", "0", "0", "2", "-", "1", "8", "2", "5", "-", "0", "0", "9", "7">>
         [] a = "notOrcid" -> <<"n", "o", "t", "O", "r", "c", "i", "d">>
         [] OTHER -> <<>>

Digits == {"0", "1", "2", "3", "4", "5", "6", "7", "8", "9"}

\* /^\d{4}-\d{4}-\d{4}-\d{3}[0-9Xx]$/
ORCID_REGEX(a) ==
    LET c == Chars(a) IN
    /\ Len(c) = 19
    /\ \A i \in 1..19 :
          IF i \in {5, 10, 15} THEN c[i] = "-"
          ELSE IF i = 19 THEN c[i] \in Digits \cup {"X", "x"}
          ELSE c[i] \in Digits

ArgvOf(p) ==
    CASE p = "import" -> ImportArgv
      [] p = "export" -> ExportArgv
      [] p = "summary" -> SummaryArgv

\* entry points that only check that a first argument is present
ArgsAcceptedIfPresent(p, a) == a # "none"

\* the argument checks of the three entry points
ArgsAccepted(p, a) ==
    CASE p = "import" -> a = "both"
      [] p = "export" -> a = "both"
      [] p = "summary" -> a # "none" /\ ORCID_REGEX(a)

toUpperCase(a) ==
    CASE a = "0000-0002-1825-009x" -> "0000-0002-1825-009X"
      [] a = "notOrcid" -> "NOTORCID"
      [] OTHER -> a

\* process.exit(2) of the argument checks
UsageExit == 2

\* the exit code once the pipeline's promise has settled: process.exit(1) in
\* the .catch handler; otherwise process.exit(0) in the summary's .then
\* handler, or the event loop runs empty, which ends the process with 0 too
SettledExit(p, o) == IF o = "rejected" THEN 1 ELSE 0

\* an exception thrown from an event handler is uncaught: node ends with 1
CrashExit == 1

----------------------------------------------------------------------------
(* importDeposit *)

\* a catch block that logs and rethrows
ImportCatchRethrows == "rejected"

\* the catch block of importDeposit: log, no rethrow
ImportCatch == "resolved"

\* an importDeposit whose success report is placed after the try statement
ImportCaughtThenSuccess ==
    /\ logs' = logs \o <<"error", "success">>
    /\ outcome' = ImportCatch
    /\ pc' = "settled"

ImportCaught ==
    /\ logs' = Append(logs, "error")
    /\ outcome' = ImportCatch
    /\ pc' = "settled"

CreateResponses == {"httpError", "okNoId", "okId"}
NegotiateResponses == {"httpError", "okNoUrl", "ok"}
TransferResponses == {"fail", "ok"}
ConfirmResponses == {"fail", "ok"}

\* response.data._id of the create-deposit response
CreatedId(status) == IF status = "okId" THEN NewId ELSE "undefined"

\* helpers that take every answered request for a success
StageOkIfAnswered(kind, status) == status \notin {"httpError", "fail"}

\* whether the helper that awaited the response returns (TRUE) or throws
StageOk(kind, status) ==
    CASE kind = "create" -> status = "okId"
      [] kind = "negotiate" -> status \in {"ok", "okNoUrl"}
      [] kind = "transfer" -> status = "ok"
      [] kind = "confirm" -> status = "ok"

\* an orchestrator that confirms whatever the transfer did
ImportNextAlwaysConfirms(kind, ok) ==
    IF kind = "transfer" THEN "confirm"
    ELSE IF ~ok THEN "catch"
    ELSE CASE kind = "create" -> "stat"
           [] kind = "negotiate" -> "transfer"
           [] kind = "confirm" -> "success"

\* what importDeposit does once a stage has settled
ImportNext(kind, ok) ==
    IF ~ok THEN "catch"
    ELSE CASE kind = "create" -> "stat"
           [] kind = "negotiate" -> "transfer"
           [] kind = "transfer" -> "confirm"
           [] kind = "confirm" -> "success"

\* an importDeposit that goes on whatever meta.json is
LoadOkAlways(meta) == TRUE

\* loadJsonFile and the construction of the deposit object
LoadOk(meta) == meta = "ok"

ImportStart ==
    /\ pc = "importDeposit"
    /\ IF LoadOk(inp.meta)
       THEN /\ reqs' = Append(reqs, CreateReq(inp, CommunityArg))
            /\ pc' = "awaitCreate"
            /\ UNCHANGED <<logs, outcome>>
       ELSE /\ ImportCaught
            /\ UNCHANGED reqs
    /\ UNCHANGED <<prog, argv, inp, settled, exitCode, depositId, fs, archive, unlinks, fetched, trace, manuscriptMetadata, jobs, disk>>

\* importSingleDeposit settles; on success createManuscriptMetadata stats the file
CreateSettles ==
    /\ pc = "awaitCreate"
    /\ \E r \in CreateResponses :
        /\ settled' = Append(settled, Res("create", r))
        /\ IF ImportNext("create", StageOk("create", r)) = "stat"
           THEN /\ depositId' = CreatedId(r)
                /\ IF inp.manuscript
                   THEN /\ \E size \in FileSizes :
                              manuscriptMetadata' = ManuscriptMetadata(inp.filename, size)
                        /\ pc' = "awaitMetadata"
                        /\ UNCHANGED <<logs, outcome>>
                   ELSE /\ ImportCaught
                        /\ UNCHANGED manuscriptMetadata
           ELSE /\ ImportCaught
                /\ UNCHANGED <<depositId, manuscriptMetadata>>
    /\ UNCHANGED <<prog, argv, inp, reqs, exitCode, fs, archive, unlinks, fetched, trace, jobs, disk>>

\* `await createManuscriptMetadata(...)` resumes; generateManuscriptUploadUrl posts
MetadataResumes ==
    /\ pc = "awaitMetadata"
    /\ reqs' = Append(reqs, NegotiateReq(depositId, manuscriptMetadata))
    /\ pc' = "awaitNegotiate"
    /\ UNCHANGED <<prog, argv, inp, settled, outcome, exitCode, logs, depositId, fs, archive, unlinks, fetched, trace, manuscriptMetadata, jobs, disk>>

NegotiateSettles ==
    /\ pc = "awaitNegotiate"
    /\ \E r \in NegotiateResponses :
        /\ settled' = Append(settled, Res("negotiate", r))
        /\ IF ImportNext("negotiate", StageOk("negotiate", r)) = "transfer"
           THEN /\ reqs' = Append(reqs, TransferReq(NegotiateData(r), manuscriptMetadata))
                /\ pc' = "awaitTransfer"
                /\ UNCHANGED <<logs, outcome>>
           ELSE /\ ImportCaught
                /\ UNCHANGED reqs
    /\ UNCHANGED <<prog, argv, inp, exitCode, depositId, fs, archive, unlinks, fetched, trace, manuscriptMetadata, jobs, disk>>

\* the constant uploadSignedUrlResponse of importDeposit: what
\* generateManuscriptUploadUrl returned, the body of the second response
UploadSignedUrlResponse == NegotiateData(settled[2].status)

TransferSettles ==
    /\ pc = "awaitTransfer"
    /\ \E r \in TransferResponses :
        /\ settled' = Append(settled, Res("transfer", r))
        /\ IF ImportNext("transfer", StageOk("transfer", r)) = "confirm"
           THEN /\ reqs' = Append(reqs, ConfirmReq(depositId, UploadSignedUrlResponse))
                /\ pc' = "awaitConfirm"
                /\ UNCHANGED <<logs, outcome>>
           ELSE /\ ImportCaught
                /\ UNCHANGED reqs
    /\ UNCHANGED <<prog, argv, inp, exitCode, depositId, fs, archive, unlinks, fetched, trace, manuscriptMetadata, jobs, disk>>

ConfirmSettles ==
    /\ pc = "awaitConfirm"
    /\ \E r \in ConfirmResponses :
        /\ settled' = Append(settled, Res("confirm", r))
        /\ IF ImportNext("confirm", StageOk("confirm", r)) = "success"
           THEN /\ logs' = Append(logs, "success")
                /\ outcome' = "resolved"
                /\ pc' = "settled"
           ELSE ImportCaught
    /\ UNCHANGED <<prog, argv, inp, reqs, exitCode, depositId, fs, archive, unlinks, fetched, trace, manuscriptMetadata, jobs, disk>>

----------------------------------------------------------------------------
(* getUserSummary *)

SummaryResponses == {"httpError", "networkError", "ok"}

NotFetched == [type |-> "pending"]
Null == [type |-> "null"]

\* the documents the platform answers with
SummaryBody(orcid) == [type |-> "summary", orcid |-> orcid]
DepositPopulated(dep) ==
    [type |-> "deposit", filename |-> dep.filename, description |-> dep.description,
     title |-> Get(dep, "title"), abstract |-> Get(dep, "abstract"),
     disciplines |-> Get(dep, "disciplines"), keywords |-> Get(dep, "keywords"),
     authors |-> IF "authors" \in DOMAIN dep THEN dep.authors ELSE <<>>,
     communityName |-> Get(dep, "community")]

\* a helper that hands out a document whatever the response was
FetchResultIgnoresFailure(r, body) == body

\* what the helper returns: response.data, or null from its catch block
FetchResult(r, body) == IF r = "ok" THEN body ELSE Null

SummaryStart ==
    /\ pc = "getUserSummary"
    /\ reqs' = Append(reqs, SummaryReq(toUpperCase(argv)))
    /\ pc' = "awaitSummary"
    /\ UNCHANGED <<prog, argv, inp, settled, outcome, exitCode, logs, depositId, fs, archive, unlinks, fetched, trace, manuscriptMetadata, jobs, disk>>

SummarySettles ==
    /\ pc = "awaitSummary"
    /\ \E r \in SummaryResponses :
        /\ settled' = Append(settled, Res("summary", r))
        /\ fetched' = FetchResult(r, SummaryBody(toUpperCase(argv)))
        /\ logs' = IF r # "ok" THEN Append(logs, "fetchError") ELSE logs
        /\ outcome' = "resolved"
        /\ pc' = "settled"
    /\ UNCHANGED <<prog, argv, inp, reqs, exitCode, depositId, fs, archive, unlinks, trace, manuscriptMetadata, jobs, disk>>

----------------------------------------------------------------------------
(* The stages of exportDeposit, as they begin and end *)

Began(stage) == [stage |-> stage, ev |-> "began"]
Done(stage) == [stage |-> stage, ev |-> "done"]
Failed(stage) == [stage |-> stage, ev |-> "failed"]

----------------------------------------------------------------------------
(* downloadDepositFile *)

FetchResponses == {"httpError", "networkError", "ok"}
\* validateStatus accepts 302 alone; a 302 may come without a location header
LocationResponses == {"302", "302noLocation", "otherStatus", "networkError"}
DownloadResponses == {"fail", "stream"}

\* the signed URL read from the location header, or the failure
LocationNext(r) == IF r = "302" THEN "download" ELSE "catch"

\* the catch block of downloadDepositFile: log, no rethrow, so the promise of
\* downloadDepositFile resolves and exportDeposit goes on
DownloadCaught ==
    /\ logs' = Append(logs, "downloadError")
    /\ pc' = "afterDownload"
    /\ UNCHANGED outcome

\* the stage in which downloadDepositFile threw into its catch block
CaughtIn(stage) == trace' = Append(trace, Failed(stage))

LocationSettles ==
    /\ pc = "awaitLocation"
    /\ \E r \in LocationResponses :
        /\ settled' = Append(settled, Res("location", r))
        /\ IF LocationNext(r) = "download"
           THEN /\ reqs' = Append(reqs, DownloadReq)
                /\ trace' = trace \o <<Done("location"), Began("download")>>
                /\ pc' = "awaitDownload"
                /\ UNCHANGED <<logs, outcome>>
           ELSE /\ DownloadCaught
                /\ CaughtIn("location")
                /\ UNCHANGED reqs
    /\ UNCHANGED <<prog, argv, inp, exitCode, depositId, fs, archive, unlinks, fetched, manuscriptMetadata, jobs, disk>>

\* the GET on the signed URL settles; on success the writer opens <dir>/<filename>
DownloadSettles ==
    /\ pc = "awaitDownload"
    /\ \E r \in DownloadResponses :
        /\ settled' = Append(settled, Res("download", r))
        /\ IF r = "stream"
           THEN /\ fs' = [fs EXCEPT ![inp.filename] = Partial]
                /\ pc' = "piping"
                /\ UNCHANGED <<logs, outcome, trace>>
           ELSE /\ DownloadCaught
                /\ CaughtIn("download")
                /\ UNCHANGED fs
    /\ UNCHANGED <<prog, argv, inp, reqs, exitCode, depositId, archive, unlinks, fetched, manuscriptMetadata, jobs, disk>>

\* writer.on('finish', resolve)
WriterFinish ==
    /\ pc = "piping"
    /\ fs' = [fs EXCEPT ![inp.filename] = Bytes]
    /\ trace' = Append(trace, Done("download"))
    /\ pc' = "afterDownload"
    /\ UNCHANGED <<prog, argv, inp, reqs, settled, outcome, exitCode, logs, depositId, archive, unlinks, fetched, manuscriptMetadata, jobs, disk>>

\* writer.on('error', reject)
WriterError ==
    /\ pc = "piping"
    /\ DownloadCaught
    /\ CaughtIn("download")
    /\ UNCHANGED <<prog, argv, inp, reqs, settled, exitCode, depositId, fs, archive, unlinks, fetched, manuscriptMetadata, jobs, disk>>

\* the response stream fails: pipe() neither ends nor destroys the writer, so
\* neither 'finish' nor 'error' is emitted on it and the awaited promise stays
\* pending; when nothing listens to the stream's 'error' event the event is
\* an uncaught exception instead, which ends the process
SourceError ==
    /\ pc = "piping"
    /\ \/ pc' = "hung" /\ UNCHANGED exitCode
       \/ pc' = "exited" /\ exitCode' = CrashExit
    /\ UNCHANGED <<prog, argv, inp, reqs, settled, outcome, logs, depositId, fs, archive, unlinks, fetched, trace, manuscriptMetadata, jobs, disk>>

----------------------------------------------------------------------------
(* exportDeposit *)

ExportStart ==
    /\ pc = "exportDeposit"
    /\ reqs' = Append(reqs, FetchReq(ExportId))
    /\ trace' = Append(trace, Began("fetch"))
    /\ pc' = "awaitFetch"
    /\ UNCHANGED <<prog, argv, inp, settled, outcome, exitCode, logs, depositId, fs, archive, unlinks, fetched, manuscriptMetadata, jobs, disk>>

\* an exportDeposit that goes on with whatever getDepositById returned
ExportAfterFetchNoCheck(result) == "write"

\* `if (!depositPopulated) throw`
ExportAfterFetch(result) == IF result = Null THEN "throw" ELSE "write"

\* a Deposit view that names the manuscript by the remote object name
ManuscriptFilenameIsRemote(dep) == dep.filename

\* the local Deposit view written to meta.json: manuscript.filename
ManuscriptFilename(dep) == dep.description

\* the remote object asked for and the local file it is written to
DownloadName(dep) == dep.filename

\* value || ''
OrEmpty(value) == IF value = "undefined" THEN "" ELSE value

\* the author literal of exportDeposit's map callback
ExportAuthor(author) ==
    [firstName |-> Get(author, "firstName"),
     lastName |-> Get(author, "lastName"),
     nickName |-> OrEmpty(Get(author, "nickName")),
     email |-> OrEmpty(Get(author, "email")),
     orcid |-> OrEmpty(Get(author, "orcid"))]

\* the deposit object exportDeposit builds and writes to meta.json
ExportedDeposit(depositPopulated) ==
    [title |-> depositPopulated.title,
     abstract |-> depositPopulated.abstract,
     disciplines |-> depositPopulated.disciplines,
     authors |-> [i \in 1..Len(depositPopulated.authors) |->
                     ExportAuthor(depositPopulated.authors[i])],
     keywords |-> depositPopulated.keywords,
     community |-> depositPopulated.communityName,
     manuscript |-> [filename |-> ManuscriptFilename(depositPopulated)]]

\* JSON.parse(JSON.stringify(author)): properties that are undefined are left out
JsonAuthor(author) ==
    [k \in {f \in DOMAIN author : author[f] # "undefined"} |-> author[k]]

\* getDepositById settles; then meta.json is written and the location is asked for
FetchSettles ==
    /\ pc = "awaitFetch"
    /\ \E r \in FetchResponses :
        /\ settled' = Append(settled, Res("fetch", r))
        /\ fetched' = FetchResult(r, DepositPopulated(inp))
        /\ logs' = IF r # "ok" THEN Append(logs, "fetchError") ELSE logs
        /\ IF ExportAfterFetch(fetched') = "write" /\ inp.dirOk
           THEN /\ fs' = [fs EXCEPT ![MetaName] = MetaDoc(ManuscriptFilename(inp))]
                /\ reqs' = Append(reqs, LocationReq(ExportId, DownloadName(inp)))
                /\ trace' = trace \o <<IF r = "ok" THEN Done("fetch") ELSE Failed("fetch"),
                                        Began("write"), Done("write"), Began("location")>>
                /\ pc' = "awaitLocation"
                /\ UNCHANGED outcome
           ELSE /\ outcome' = "rejected"
                /\ trace' = trace \o
                      IF ExportAfterFetch(fetched') = "write"
                      THEN <<Done("fetch"), Began("write"), Failed("write")>>
                      ELSE <<Failed("fetch")>>
                /\ pc' = "settled"
                /\ UNCHANGED <<fs, reqs>>
    /\ UNCHANGED <<prog, argv, inp, exitCode, depositId, archive, unlinks, manuscriptMetadata, jobs, disk>>

Task(path, name) == [path |-> path, name |-> name]

\* archive.file(metadataPath, ...) and archive.file(manuscriptPath, ...)
ArchiveTasks(dep) ==
    <<Task(MetaName, MetaName), Task(DownloadName(dep), ManuscriptFilename(dep))>>

\* downloadDepositFile has resolved: the output stream is opened on the zip path,
\* the two files are queued and archive.finalize() is called
ArchiveStart ==
    /\ pc = "afterDownload"
    /\ fs' = [fs EXCEPT ![ZipName] = ZipFile]
    /\ archive' = [state |-> "building", queue |-> ArchiveTasks(inp), entries |-> <<>>]
    /\ trace' = Append(trace, Began("archive"))
    /\ pc' = "archiving"
    /\ UNCHANGED <<prog, argv, inp, reqs, settled, outcome, exitCode, logs, depositId, unlinks, fetched, manuscriptMetadata, jobs, disk>>

Entry(task, file) == [name |-> task.name, source |-> task.path, content |-> file]

\* archiver stats the queued path: a path that is not there is skipped with a
\* 'warning' event (no listener here), a path that is there becomes an entry
ArchiveEntry ==
    /\ pc = "archiving"
    /\ archive.queue # <<>>
    /\ LET task == Head(archive.queue) IN
        archive' = [archive EXCEPT
            !.queue = Tail(archive.queue),
            !.entries = IF Exists(fs, task.path)
                        THEN Append(archive.entries, Entry(task, fs[task.path]))
                        ELSE archive.entries]
    /\ UNCHANGED <<prog, argv, inp, pc, reqs, settled, outcome, exitCode, logs, depositId, fs, unlinks, fetched, trace, manuscriptMetadata, jobs, disk>>

\* a packaging error that is swallowed, after which exportDeposit goes on
ArchiveErrorThenCleanup ==
    /\ pc = "archiving"
    /\ archive' = [archive EXCEPT !.state = "failed"]
    /\ trace' = Append(trace, Failed("archive"))
    /\ pc' = "cleanup"
    /\ UNCHANGED <<prog, argv, inp, reqs, settled, outcome, exitCode, logs, depositId, fs, unlinks, fetched, manuscriptMetadata, jobs, disk>>

\* a packaging error while the archive is built:
\* archive.on('error', err => { throw err }), and the throw leaves the
\* emitter's emit() call, outside exportDeposit's promise
ArchiveError ==
    /\ pc = "archiving"
    /\ archive' = [archive EXCEPT !.state = "failed"]
    /\ trace' = Append(trace, Failed("archive"))
    /\ pc' = "exited"
    /\ exitCode' = CrashExit
    /\ UNCHANGED <<prog, argv, inp, reqs, settled, outcome, logs, depositId, fs, unlinks, fetched, manuscriptMetadata, jobs, disk>>

\* every queued file was handled: the zip stream ends and finalize() resolves
ArchiveEnd ==
    /\ pc = "archiving"
    /\ archive.queue = <<>>
    /\ archive' = [archive EXCEPT !.state = "finalized"]
    /\ trace' = Append(trace, Done("archive"))
    /\ pc' = "cleanup"
    /\ UNCHANGED <<prog, argv, inp, reqs, settled, outcome, exitCode, logs, depositId, fs, unlinks, fetched, manuscriptMetadata, jobs, disk>>

Unlink(f, p) == [f EXCEPT ![p] = Absent]

\* the paths unlinkSync is called on: the second call is reached only when the
\* first did not throw
CleanupPaths(f, dep) ==
    IF Exists(f, MetaName) THEN <<MetaName, DownloadName(dep)>> ELSE <<MetaName>>

\* fs.unlinkSync(metadataPath); fs.unlinkSync(manuscriptPath);
Cleanup ==
    /\ pc = "cleanup"
    /\ LET todo == CleanupPaths(fs, inp)
           f1 == IF Exists(fs, MetaName) THEN Unlink(fs, MetaName) ELSE fs
           ok2 == Len(todo) = 2 /\ Exists(f1, todo[2])
       IN /\ unlinks' = unlinks \o todo
          /\ fs' = IF ok2 THEN Unlink(f1, todo[2]) ELSE f1
          /\ outcome' = IF ok2 THEN "resolved" ELSE "rejected"
          /\ trace' = trace \o <<Began("unlink"), IF ok2 THEN Done("unlink") ELSE Failed("unlink")>>
    /\ pc' = "settled"
    /\ UNCHANGED <<prog, argv, inp, reqs, settled, exitCode, logs, depositId, archive, fetched, manuscriptMetadata, jobs, disk>>

\* output.on('close', ...): the zip was flushed; the event follows the end of
\* the zip stream, and a process that exited emits nothing
OutputClose ==
    /\ pc = "settled"
    /\ archive.state = "finalized"
    /\ archive' = [archive EXCEPT !.state = "closed"]
    /\ logs' = Append(logs, "zipCreated")
    /\ UNCHANGED <<prog, argv, inp, pc, reqs, settled, outcome, exitCode, depositId, fs, unlinks, fetched, trace, manuscriptMetadata, jobs, disk>>

----------------------------------------------------------------------------
(* The command-line entry points *)

EntryOf(p) ==
    CASE p = "import" -> "importDeposit"
      [] p = "export" -> "exportDeposit"
      [] p = "summary" -> "getUserSummary"

CliStart ==
    /\ pc = "cli"
    /\ IF ArgsAccepted(prog, argv)
       THEN /\ pc' = EntryOf(prog)
            /\ UNCHANGED exitCode
       ELSE /\ pc' = "exited"
            /\ exitCode' = UsageExit
    /\ UNCHANGED <<prog, argv, inp, reqs, settled, outcome, logs, depositId, fs, archive, unlinks, fetched, trace, manuscriptMetadata, jobs, disk>>

\* the .then/.catch handlers of the entry point, or the end of the event loop
CliExit ==
    /\ pc = "settled"
    /\ (outcome = "resolved" => archive.state # "finalized")
    /\ exitCode' = SettledExit(prog, outcome)
    /\ pc' = "exited"
    /\ UNCHANGED <<prog, argv, inp, reqs, settled, outcome, logs, depositId, fs, archive, unlinks, fetched, trace, manuscriptMetadata, jobs, disk>>

----------------------------------------------------------------------------

\* the community field of meta.json: none, or one that is not the caller's
MetaCommunities == {"undefined", "MetaCommunity"}

\* authors are read only from a meta.json that parses and has them
ImportInputs ==
    {i \in [impl : Impls, meta : MetaStates, manuscript : BOOLEAN, authors : AuthorLists,
             title : {"Title"}, abstract : {"Abstract"}, disciplines : {<<"Physics">>},
             keywords : {<<"k1", "k2">>}, community : MetaCommunities,
             filename : {"X.docx"}, description : {"X.docx"}, dirOk : {TRUE}, stale : {FALSE}] :
        i.meta # "ok" => (i.authors = <<>> /\ i.community = "undefined")}

SummaryInputs ==
    [impl : {"import-deposit"}, meta : {"ok"}, manuscript : {TRUE}, authors : {<<>>},
     filename : {"X.docx"}, description : {"X.docx"}, dirOk : {TRUE}, stale : {FALSE}]

\* a file can be in the target directory beforehand only if the directory exists
ExportInputs ==
    {i \in [impl : {"import-deposit"}, meta : {"ok"}, manuscript : {TRUE}, authors : {<<>>},
             filename : RemoteNames, description : DisplayNames,
             dirOk : BOOLEAN, stale : BOOLEAN] : i.stale => i.dirOk}

\* the target directory before the run
InitialFs(i) == [p \in Paths |-> IF i.stale /\ p = i.filename THEN Stale ELSE Absent]

InputsOf(p) ==
    CASE p = "import" -> ImportInputs
      [] p = "export" -> ExportInputs
      [] p = "summary" -> SummaryInputs

Init ==
    /\ prog \in Programs
    /\ argv \in ArgvOf(prog)
    /\ inp \in InputsOf(prog)
    /\ pc = "cli"
    /\ reqs = <<>>
    /\ settled = <<>>
    /\ outcome = "pending"
    /\ exitCode = 0
    /\ logs = <<>>
    /\ depositId = "none"
    /\ fs = InitialFs(inp)
    /\ archive = NoArchive
    /\ unlinks = <<>>
    /\ fetched = NotFetched
    /\ trace = <<>>
    /\ manuscriptMetadata = NoMetadata
    /\ jobs = <<>>
    /\ disk = <<>>

Next ==
    \/ CliStart
    \/ ImportStart
    \/ CreateSettles
    \/ MetadataResumes
    \/ NegotiateSettles
    \/ TransferSettles
    \/ ConfirmSettles
    \/ ExportStart
    \/ FetchSettles
    \/ LocationSettles
    \/ DownloadSettles
    \/ WriterFinish
    \/ WriterError
    \/ SourceError
    \/ ArchiveStart
    \/ ArchiveEntry
    \/ ArchiveError
    \/ ArchiveEnd
    \/ Cleanup
    \/ OutputClose
    \/ SummaryStart
    \/ SummarySettles
    \/ CliExit

Spec == Init /\ [][Next]_vars

----------------------------------------------------------------------------
(* Two concurrent invocations of exportDeposit.                            *)
(*                                                                         *)
(* Each invocation runs the steps of exportDeposit above; a step is the    *)
(* code between two awaits.  The invocations export different deposits,    *)
(* into the same directory or into two directories, and share the disk.    *)

Invocations == {"a", "b"}
Dirs == {"dirA", "dirB"}

OtherId == "E2"
OtherZipName == "deposit_E2.zip"

\* the two deposits as the platform returns them
ConcurrentDeposit(id) ==
    IF id = ExportId
    THEN [filename |-> "X.docx", description |-> "Y.docx"]
    ELSE [filename |-> "W.docx", description |-> "V.docx"]

ZipNameOf(id) == IF id = ExportId THEN ZipName ELSE OtherZipName

DiskNames == {MetaName, "X.docx", "W.docx", ZipName, OtherZipName}
DiskPaths == Dirs \X DiskNames

\* a file as written by the export of deposit id
Tagged(file, id) == [kind |-> file.kind, mf |-> file.mf, of |-> id]

\* a metadata path that is the same whatever the target directory
MetadataPathShared(dir) == <<"dirA", MetaName>>

\* path.join(downloadPath, 'meta.json')
MetadataPath(dir) == <<dir, MetaName>>

\* path.join(downloadPath, depositPopulated.publicationFile.filename)
ManuscriptPath(dir, dep) == <<dir, DownloadName(dep)>>

\* path.join(downloadPath, `deposit_${depositId}.zip`)
ZipFilePath(dir, id) == <<dir, ZipNameOf(id)>>

Job(id, dir) ==
    [id |-> id, dir |-> dir, dep |-> ConcurrentDeposit(id), pc |-> "exportDeposit",
     outcome |-> "pending", archive |-> NoArchive, unlinks |-> <<>>]

JobTasks(job) ==
    <<Task(MetadataPath(job.dir), MetaName),
      Task(ManuscriptPath(job.dir, job.dep), ManuscriptFilename(job.dep))>>

\* the variables of the single run, which stay as they are
single == <<prog, argv, inp, pc, reqs, settled, outcome, exitCode, logs,
            depositId, fs, archive, unlinks, fetched, trace, manuscriptMetadata>>

JobStart(j) ==
    /\ jobs[j].pc = "exportDeposit"
    /\ jobs' = [jobs EXCEPT ![j].pc = "awaitFetch"]
    /\ UNCHANGED <<single, disk>>

\* getDepositById settles; meta.json is written, the location is asked for
JobFetchSettles(j) ==
    /\ jobs[j].pc = "awaitFetch"
    /\ \E r \in FetchResponses :
        IF ExportAfterFetch(FetchResult(r, DepositPopulated(jobs[j].dep))) = "write"
        THEN /\ disk' = [disk EXCEPT ![MetadataPath(jobs[j].dir)] =
                            Tagged(MetaDoc(ManuscriptFilename(jobs[j].dep)), jobs[j].id)]
             /\ jobs' = [jobs EXCEPT ![j].pc = "awaitLocation"]
        ELSE /\ jobs' = [jobs EXCEPT ![j].pc = "settled", ![j].outcome = "rejected"]
             /\ UNCHANGED disk
    /\ UNCHANGED single

JobLocationSettles(j) ==
    /\ jobs[j].pc = "awaitLocation"
    /\ \E r \in LocationResponses :
        jobs' = [jobs EXCEPT ![j].pc =
                    IF LocationNext(r) = "download" THEN "awaitDownload" ELSE "afterDownload"]
    /\ UNCHANGED <<single, disk>>

JobDownloadSettles(j) ==
    /\ jobs[j].pc = "awaitDownload"
    /\ \E r \in DownloadResponses :
        IF r = "stream"
        THEN /\ disk' = [disk EXCEPT ![ManuscriptPath(jobs[j].dir, jobs[j].dep)] =
                            Tagged(Partial, jobs[j].id)]
             /\ jobs' = [jobs EXCEPT ![j].pc = "piping"]
        ELSE /\ jobs' = [jobs EXCEPT ![j].pc = "afterDownload"]
             /\ UNCHANGED disk
    /\ UNCHANGED single

JobWriterFinish(j) ==
    /\ jobs[j].pc = "piping"
    /\ disk' = [disk EXCEPT ![ManuscriptPath(jobs[j].dir, jobs[j].dep)] =
                   Tagged(Bytes, jobs[j].id)]
    /\ jobs' = [jobs EXCEPT ![j].pc = "afterDownload"]
    /\ UNCHANGED single

JobWriterError(j) ==
    /\ jobs[j].pc = "piping"
    /\ jobs' = [jobs EXCEPT ![j].pc = "afterDownload"]
    /\ UNCHANGED <<single, disk>>

JobArchiveStart(j) ==
    /\ jobs[j].pc = "afterDownload"
    /\ disk' = [disk EXCEPT ![ZipFilePath(jobs[j].dir, jobs[j].id)] = Tagged(ZipFile, jobs[j].id)]
    /\ jobs' = [jobs EXCEPT
                   ![j].archive = [state |-> "building", queue |-> JobTasks(jobs[j]), entries |-> <<>>],
                   ![j].pc = "archiving"]
    /\ UNCHANGED single

JobArchiveEntry(j) ==
    /\ jobs[j].pc = "archiving"
    /\ jobs[j].archive.queue # <<>>
    /\ LET task == Head(jobs[j].archive.queue) IN
        jobs' = [jobs EXCEPT
            ![j].archive.queue = Tail(jobs[j].archive.queue),
            ![j].archive.entries =
                IF Exists(disk, task.path)
                THEN Append(jobs[j].archive.entries, Entry(task, disk[task.path]))
                ELSE jobs[j].archive.entries]
    /\ UNCHANGED <<single, disk>>

JobArchiveEnd(j) ==
    /\ jobs[j].pc = "archiving"
    /\ jobs[j].archive.queue = <<>>
    /\ jobs' = [jobs EXCEPT ![j].archive.state = "finalized", ![j].pc = "cleanup"]
    /\ UNCHANGED <<single, disk>>

\* fs.unlinkSync(metadataPath); fs.unlinkSync(manuscriptPath);
JobCleanup(j) ==
    /\ jobs[j].pc = "cleanup"
    /\ LET meta == MetadataPath(jobs[j].dir)
           manuscript == ManuscriptPath(jobs[j].dir, jobs[j].dep)
           ok1 == Exists(disk, meta)
           d1 == IF ok1 THEN Unlink(disk, meta) ELSE disk
           ok2 == ok1 /\ Exists(d1, manuscript)
       IN /\ disk' = IF ok2 THEN Unlink(d1, manuscript) ELSE d1
          /\ jobs' = [jobs EXCEPT
                         ![j].unlinks = IF ok1 THEN <<meta, manuscript>> ELSE <<meta>>,
                         ![j].outcome = IF ok2 THEN "resolved" ELSE "rejected",
                         ![j].pc = "settled"]
    /\ UNCHANGED single

\* invocation a exports the one deposit into dirA; invocation b exports the
\* other deposit into dirA too, or into dirB
InitConcurrent ==
    /\ prog = "export"
    /\ argv = "both"
    /\ inp = <<>>
    /\ pc = "concurrent"
    /\ reqs = <<>>
    /\ settled = <<>>
    /\ outcome = "pending"
    /\ exitCode = 0
    /\ logs = <<>>
    /\ depositId = "none"
    /\ fs = <<>>
    /\ archive = NoArchive
    /\ unlinks = <<>>
    /\ fetched = NotFetched
    /\ trace = <<>>
    /\ manuscriptMetadata = NoMetadata
    /\ \E d \in Dirs :
          jobs = [j \in Invocations |->
                     IF j = "a" THEN Job(ExportId, "dirA") ELSE Job(OtherId, d)]
    /\ disk = [q \in DiskPaths |-> Absent]

NextConcurrent ==
    \E j \in Invocations :
        \/ JobStart(j)
        \/ JobFetchSettles(j)
        \/ JobLocationSettles(j)
        \/ JobDownloadSettles(j)
        \/ JobWriterFinish(j)
        \/ JobWriterError(j)
        \/ JobArchiveStart(j)
        \/ JobArchiveEntry(j)
        \/ JobArchiveEnd(j)
        \/ JobCleanup(j)

SpecConcurrent == InitConcurrent /\ [][NextConcurrent]_vars

----------------------------------------------------------------------------
(* Properties of importDeposit *)

ImportStages == <<"create", "negotiate", "transfer", "confirm">>

IsPrefix(s, t) == Len(s) <= Len(t) /\ \A i \in 1..Len(s) : s[i] = t[i]

Has(s, x) == \E i \in 1..Len(s) : s[i] = x

Ended == pc \in {"settled", "exited"}

\* a response with which the stage has failed
StageFailed(res) == res.status \in {"httpError", "okNoId", "fail"}

WellFormedImport == prog = "import" /\ inp.meta = "ok" /\ inp.manuscript

\* C1: with a well-formed meta.json and an existing manuscript, create,
\* negotiate, transfer and confirm are requested in that order, each at most
\* once and only when every earlier request has settled without failure; no
\* request follows a failed stage; a run that ends without a failed stage has
\* issued each of the four exactly once.
C1_StagesInOrder ==
    WellFormedImport =>
        /\ IsPrefix(Kinds(reqs), ImportStages)
        /\ IsPrefix(Kinds(settled), Kinds(reqs))
        /\ Len(reqs) <= Len(settled) + 1
        /\ \A i \in 1..Len(settled) : StageFailed(settled[i]) => Len(reqs) = i
        /\ (Ended /\ ArgsAccepted(prog, argv)) =>
              \/ Kinds(reqs) = ImportStages /\ Len(settled) = Len(ImportStages)
              \/ Len(settled) = Len(reqs) /\ Len(reqs) > 0 /\ StageFailed(settled[Len(settled)])

C1_Witness ==
    /\ WellFormedImport
    /\ Ended
    /\ Kinds(reqs) = ImportStages
    /\ Len(settled) = Len(ImportStages)
    /\ \A i \in 1..Len(settled) : ~StageFailed(settled[i])

\* the import did not go through: a stage failed, or a local step threw
ImportFailed == Has(logs, "error")

ImportSucceeded ==
    /\ Len(settled) = Len(ImportStages)
    /\ settled[Len(ImportStages)] = Res("confirm", "ok")

\* C3: the promise of importDeposit resolves only when the deposit was
\* imported, and rejects when any step failed.
C3_RejectsOnFailure ==
    (prog = "import" /\ Ended /\ ArgsAccepted(prog, argv)) =>
        /\ outcome = "resolved" => ImportSucceeded
        /\ ~ImportSucceeded => outcome = "rejected"

----------------------------------------------------------------------------
(* Properties of the command-line entry points *)

\* the pipeline of the entry point went through
PipelineSucceeded ==
    CASE prog = "import" -> ImportSucceeded
      [] prog = "export" -> outcome = "resolved"
      [] prog = "summary" -> Len(settled) = 1 /\ settled[1] = Res("summary", "ok")

\* C4: an entry point ends with a non-zero exit code when its arguments are
\* refused or its pipeline failed; it ends with 0 only when the pipeline
\* succeeded.
C4_ExitCodes ==
    pc = "exited" =>
        /\ ~ArgsAccepted(prog, argv) => exitCode # 0
        /\ exitCode = 0 <=> (ArgsAccepted(prog, argv) /\ PipelineSucceeded)

----------------------------------------------------------------------------
(* Properties of exportDeposit *)

FetchFailed == Len(settled) >= 1 /\ settled[1].kind = "fetch" /\ settled[1].status # "ok"

\* C5: when getDepositById returns null, exportDeposit rejects, the target
\* directory is as it was before the call (no meta.json, no manuscript, no
\* archive written), and no request but the fetch was issued.
C5_NullAbortsBeforeWrites ==
    (prog = "export" /\ FetchFailed) =>
        /\ outcome = "rejected"
        /\ fs = InitialFs(inp)
        /\ archive = NoArchive
        /\ unlinks = <<>>
        /\ Kinds(reqs) = <<"fetch">>

C5_Witness ==
    /\ prog = "export"
    /\ FetchFailed
    /\ inp.dirOk
    /\ Ended
    /\ outcome = "rejected"

BuiltOk == archive.state \in {"finalized", "closed"}

\* C6: when publicationFile.filename and .description differ, the file
\* location is asked for publicationFile.filename, every meta.json written
\* carries manuscript.filename = description, and the archive of a successful
\* export holds the metadata document and, read from <dir>/<filename>, the
\* manuscript under the entry name description; no entry is named filename.
C6_NamesKeptApart ==
    (prog = "export" /\ inp.filename # inp.description) =>
        /\ \A i \in 1..Len(reqs) :
              reqs[i].kind = "location" =>
                  reqs[i].target = <<"API", "deposits", ExportId, "files", inp.filename>>
        /\ fs[MetaName].kind = "meta" => fs[MetaName].mf = inp.description
        /\ outcome = "resolved" =>
              /\ Has(Kinds(reqs), "location")
              /\ Len(archive.entries) = 2
              /\ archive.entries[1] =
                    [name |-> MetaName, source |-> MetaName, content |-> MetaDoc(inp.description)]
              /\ archive.entries[2].name = inp.description
              /\ archive.entries[2].source = inp.filename
              /\ \A i \in 1..Len(archive.entries) : archive.entries[i].name # inp.filename

C6_Witness ==
    /\ prog = "export"
    /\ inp.filename = "X.docx"
    /\ inp.description = "Y.docx"
    /\ outcome = "resolved"
    /\ archive.entries[2] = [name |-> "Y.docx", source |-> "X.docx", content |-> Bytes]

\* every request of the export was answered with success and the manuscript
\* was written completely, into a directory that did not hold it before
CleanExport ==
    /\ prog = "export"
    /\ ~inp.stale
    /\ ~Has(logs, "downloadError")
    /\ Has(settled, Res("download", "stream"))

\* C7: whenever exportDeposit resolves, <dir>/deposit_<id>.zip exists and has
\* exactly two entries, meta.json and the manuscript under its description,
\* and neither loose file remains.  (Stated for the exports in which every
\* stage went through and the display name is Y.docx.)
C7_ArchiveComplete ==
    (CleanExport /\ inp.description = "Y.docx" /\ outcome = "resolved") =>
        /\ Exists(fs, ZipName)
        /\ Len(archive.entries) = 2
        /\ archive.entries[1].name = MetaName
        /\ archive.entries[2].name = inp.description
        /\ ~Exists(fs, MetaName)
        /\ ~Exists(fs, inp.filename)

\* the manuscript path held a file when the archive stage began
ManuscriptOnDisk == inp.stale \/ Has(settled, Res("download", "stream"))

\* C8: the loose files are deleted if and only if the archive build
\* succeeded: unlinkSync is called only after a successful build, after which
\* neither loose file is left; after a failed build no deletion is attempted
\* and meta.json and the manuscript file are still there.
C8_CleanupIffBuilt ==
    prog = "export" =>
        /\ unlinks # <<>> => BuiltOk
        /\ (BuiltOk /\ Ended) =>
              /\ unlinks # <<>>
              /\ ~Exists(fs, MetaName)
              /\ ~Exists(fs, inp.filename)
        /\ archive.state = "failed" =>
              /\ unlinks = <<>>
              /\ Exists(fs, MetaName)
              /\ ManuscriptOnDisk => Exists(fs, inp.filename)

C8_Witness ==
    /\ prog = "export"
    /\ archive.state = "failed"
    /\ Len(archive.entries) = 1
    /\ fs[MetaName].kind = "meta"
    /\ fs[inp.filename] = Bytes

\* a deposit whose names collide with nothing, exported into an empty directory
PlainExport ==
    /\ prog = "export"
    /\ inp.filename = "X.docx"
    /\ inp.description = "Y.docx"
    /\ ~inp.stale

\* C9: when the file-location request returns a status other than 302, no
\* second GET is issued, no manuscript file is written, and the archive step
\* fails: no archive is built or reported as built.  (Stated for a deposit
\* whose names collide with nothing and an empty target directory.)
C9_Non302FailsArchive ==
    (PlainExport /\ Has(settled, Res("location", "otherStatus"))) =>
        /\ ~Has(Kinds(reqs), "download")
        /\ fs[inp.filename].kind \notin {"bytes", "partial"}
        /\ ~BuiltOk
        /\ ~Has(logs, "zipCreated")

DownloadFailed == Has(logs, "downloadError")

\* C10: a failure of any stage aborts all remaining stages; after a failed
\* manuscript download neither the archive stage nor the cleanup runs, and the
\* loose meta.json stays.  (Stated for a deposit whose names collide with
\* nothing and an empty target directory.)
C10_FailureAborts ==
    PlainExport =>
        /\ FetchFailed => Kinds(reqs) = <<"fetch">> /\ archive = NoArchive
        /\ DownloadFailed =>
              /\ archive = NoArchive
              /\ unlinks = <<>>
              /\ Exists(fs, MetaName)
        /\ archive.state = "failed" => unlinks = <<>>

\* C11: the output stream of the archive has emitted 'close' before
\* exportDeposit deletes the loose files and before its promise resolves.
\* (Stated for the exports in which every stage went through, of a deposit
\* whose names collide with nothing.)
C11_ClosedBeforeCompletion ==
    (PlainExport /\ CleanExport) =>
        /\ unlinks # <<>> => archive.state = "closed"
        /\ outcome = "resolved" => archive.state = "closed"

\* C12: a packaging error is surfaced as a rejection of the promise of
\* exportDeposit: once the archive build has failed the promise is rejected,
\* neither resolved nor left unsettled by an exception raised outside it.
C12_PackagingErrorRejects ==
    (prog = "export" /\ archive.state = "failed") =>
        /\ outcome = "rejected"
        /\ pc # "exited"

----------------------------------------------------------------------------
(* Properties of the requests of importDeposit *)

\* C13: the authors of the create-deposit request are the authors of
\* meta.json, one for one and in order: the same number, the i-th with
\* firstName, lastName and orcid of the i-th input's first_name, last_name and
\* orcid, and with no other field (author_id, user_id, middle_name,
\* date_modified); every author list is transformed, so that a well-formed
\* meta.json always leads to the request.
C13_AuthorsMapped ==
    prog = "import" =>
        /\ \A k \in 1..Len(reqs) :
              reqs[k].kind = "create" =>
                  LET out == reqs[k].body.authors IN
                  /\ Len(out) = Len(inp.authors)
                  /\ \A i \in 1..Len(out) :
                        /\ out[i].firstName = inp.authors[i].first_name
                        /\ out[i].lastName = inp.authors[i].last_name
                        /\ out[i].orcid = inp.authors[i].orcid
                        /\ DOMAIN out[i] = {"firstName", "lastName", "orcid"}
        /\ (inp.meta = "ok" /\ pc \notin {"cli", "importDeposit"} /\ ArgsAccepted(prog, argv)) =>
              Has(Kinds(reqs), "create")

C13_Witness ==
    /\ prog = "import"
    /\ Len(inp.authors) = MaxAuthors
    /\ inp.authors[1] # inp.authors[2]
    /\ Has(Kinds(reqs), "create")
    /\ reqs[1].body.authors[2].lastName = inp.authors[2].last_name

----------------------------------------------------------------------------
(* Properties of the fetch helpers *)

\* the document the platform holds for the request of this run
RemoteDocument ==
    IF prog = "summary" THEN SummaryBody(toUpperCase(argv)) ELSE DepositPopulated(inp)

\* C14: getDepositById and getUserSummary never reject: each issues exactly
\* one GET, and once it has settled the helper has returned, the body of the
\* response as it is when the request succeeded and null after an HTTP error
\* status or a network error.
C14_FetchHelpersReturn ==
    prog \in {"summary", "export"} =>
        /\ \A i, j \in 1..Len(reqs) :
              (reqs[i].kind \in {"summary", "fetch"} /\ reqs[j].kind \in {"summary", "fetch"}) => i = j
        /\ \A i \in 1..Len(reqs) : reqs[i].kind \in {"summary", "fetch"} => reqs[i].method = "GET"
        /\ pc \in {"awaitSummary", "awaitFetch"} => Len(reqs) = 1 /\ fetched = NotFetched
        /\ settled = <<>> <=> fetched = NotFetched
        /\ settled # <<>> =>
              /\ Len(reqs) >= 1
              /\ fetched = IF settled[1].status = "ok" THEN RemoteDocument ELSE Null
        /\ prog = "summary" => outcome # "rejected" /\ (settled # <<>> => outcome = "resolved")

C14_Witness ==
    /\ prog = "summary"
    /\ settled = <<Res("summary", "networkError")>>
    /\ fetched = Null
    /\ outcome = "resolved"
    /\ Len(reqs) = 1

----------------------------------------------------------------------------
(* Properties of the signed URL *)

Range(s) == {s[i] : i \in 1..Len(s)}

ToApi(req) == req.target[1] = "API"

\* C15: the signedUrl of the upload negotiation is the target of exactly one
\* request of the import, the PUT; the body of the confirm request is the
\* negotiation response without signedUrl, every other field as it came; no
\* request to the platform API carries the signedUrl in its target or body.
C15_SignedUrlOnce ==
    prog = "import" =>
        /\ \A s \in {"ok", "okNoUrl"} :
              Has(settled, Res("negotiate", s)) =>
                  LET data == NegotiateData(s) IN
                  /\ \A k \in 1..Len(reqs) :
                        reqs[k].kind = "confirm" =>
                            /\ DOMAIN reqs[k].body = DOMAIN data \ {"signedUrl"}
                            /\ \A f \in DOMAIN reqs[k].body : reqs[k].body[f] = data[f]
        /\ Has(settled, Res("negotiate", "ok")) =>
              LET url == NegotiateData("ok").signedUrl IN
              /\ \E k \in 1..Len(reqs) :
                    /\ reqs[k].kind = "transfer"
                    /\ reqs[k].method = "PUT"
                    /\ reqs[k].target = <<url>>
                    /\ \A j \in 1..Len(reqs) : url \in Range(reqs[j].target) => j = k
              /\ \A k \in 1..Len(reqs) :
                    ToApi(reqs[k]) =>
                        /\ url \notin Range(reqs[k].target)
                        /\ reqs[k].kind = "confirm" =>
                              \A f \in DOMAIN reqs[k].body : reqs[k].body[f] # url

C15_Witness ==
    /\ prog = "import"
    /\ Has(settled, Res("negotiate", "ok"))
    /\ Len(reqs) = 4
    /\ reqs[3].target = <<"SIGNED">>
    /\ reqs[4].kind = "confirm"
    /\ reqs[4].body.fileMetadata = "FM"

----------------------------------------------------------------------------
(* Properties of the pipelines as sequences of calls *)

\* a remote call that did not succeed
CallFailed(res) == res.status \in {"httpError", "networkError", "fail", "otherStatus"}

\* C17: no endpoint is requested twice in one invocation, no request follows
\* a failed call (after a failed transfer there is neither a confirm nor a
\* compensating request), and a failed call is terminal: the invocation does
\* nothing more, it neither builds an archive nor deletes a file.  (For the
\* export, stated for a deposit whose names collide with nothing and an
\* empty target directory.)
C17_NoRetryFailureTerminal ==
    (prog = "export" => PlainExport) =>
        /\ \A i, j \in 1..Len(reqs) : reqs[i].kind = reqs[j].kind => i = j
        /\ \A i \in 1..Len(settled) : CallFailed(settled[i]) => Len(reqs) = i
        /\ (\E i \in 1..Len(settled) : CallFailed(settled[i])) =>
              /\ archive = NoArchive
              /\ unlinks = <<>>

\* C18: whenever the create-deposit request has been issued, the manuscript
\* file named by meta.json is in the directory of meta.json; an import whose
\* manuscript file is missing creates no remote deposit.
C18_ManuscriptExistsAtCreate ==
    (prog = "import" /\ Has(Kinds(reqs), "create")) => inp.manuscript

\* C19: downloadDepositFile returns to exportDeposit only after the
\* manuscript was written completely to <dir>/<filename>; when the 302 has no
\* location header, or the file-location request or the download request
\* fails, it throws instead and exportDeposit does not go on.  (Stated for a
\* deposit whose names collide with nothing and an empty target directory.)
C19_DownloadRejectsOnFailure ==
    (PlainExport /\ pc = "afterDownload") =>
        /\ fs[inp.filename] = Bytes
        /\ ~DownloadFailed
        /\ settled[Len(settled)] = Res("download", "stream")

----------------------------------------------------------------------------
(* Properties of the order of the export stages *)

ExportStages == <<"fetch", "write", "location", "download", "archive", "unlink">>

StageIndex(stage) == CHOOSE i \in 1..Len(ExportStages) : ExportStages[i] = stage

\* the stages that are requests, and the request kinds issued
RequestStages == {"fetch", "location", "download"}

\* the stages of exportDeposit begin in the order fetch, write meta.json,
\* file-location request, download, archive build, deletion of the loose
\* files, each at most once, and a stage begins only when the call of the
\* stage begun before it has returned or thrown; the requests, the files
\* written, the archive and the deletions are there only once their stage
\* has begun
StagesBeginInOrder ==
    prog = "export" =>
        /\ \A i \in 1..Len(trace) :
              IF i % 2 = 1
              THEN trace[i].ev = "began"
              ELSE trace[i].ev \in {"done", "failed"} /\ trace[i].stage = trace[i - 1].stage
        /\ \A i, j \in 1..Len(trace) :
              (i < j /\ trace[i].ev = "began" /\ trace[j].ev = "began") =>
                  StageIndex(trace[i].stage) < StageIndex(trace[j].stage)
        /\ \A k \in RequestStages : Has(Kinds(reqs), k) <=> Has(trace, Began(k))
        /\ \A i \in 1..Len(reqs) :
              reqs[i].kind = "location" =>
                  reqs[i].target[Len(reqs[i].target)] = inp.filename
        /\ \A q \in Paths :
              /\ fs[q].kind = "meta" => Has(trace, Done("write"))
              /\ fs[q].kind \in {"partial", "bytes"} =>
                    q = inp.filename /\ Has(trace, Began("download"))
              /\ fs[q].kind = "zip" => Has(trace, Began("archive"))
        /\ archive # NoArchive <=> Has(trace, Began("archive"))
        /\ unlinks # <<>> <=> Has(trace, Began("unlink"))
        /\ Has(trace, Began("unlink")) => Has(trace, Done("archive"))

\* no stage of the export has failed so far
NoStageFailed == \A i \in 1..Len(trace) : trace[i].ev # "failed"

\* C20: the export stages run in the order fetch, write meta.json,
\* file-location request, download, archive build, deletion of the loose
\* files, each at most once, and none begins before the one before it has
\* completed: the download before the manuscript is written, the deletion
\* before the archive is written and its output closed.  (Stated for the
\* exports in which no stage fails, of a deposit whose names collide with
\* nothing, into an empty directory.)
C20_ExportStagesInOrder ==
    (PlainExport /\ NoStageFailed) =>
        /\ StagesBeginInOrder
        /\ \A i \in 1..Len(trace) :
              (trace[i].ev = "began" /\ i > 1) =>
                  trace[i - 1] = Done(ExportStages[StageIndex(trace[i].stage) - 1])
        /\ Has(trace, Began("archive")) => fs[inp.filename] = Bytes
        /\ Has(trace, Began("unlink")) => archive.state = "closed"

----------------------------------------------------------------------------
(* Properties of concurrent exports *)

SameDir == jobs["a"].dir = jobs["b"].dir

Entries(j) == jobs[j].archive.entries

\* C16: two concurrent exports into different directories do not interfere:
\* every file of a directory and every archive entry comes from the export
\* that targets the directory, and an export that resolves has archived its
\* own meta.json and its own manuscript.  Two concurrent exports into the
\* same directory can interfere on meta.json, and on meta.json alone: an
\* archive entry that comes from the other export is the entry meta.json.
C16_ConcurrentExports ==
    \A j \in Invocations :
        /\ ~SameDir =>
              /\ \A i \in 1..Len(Entries(j)) : Entries(j)[i].content.of = jobs[j].id
              /\ \A n \in DiskNames :
                    Exists(disk, <<jobs[j].dir, n>>) => disk[<<jobs[j].dir, n>>].of = jobs[j].id
              /\ jobs[j].outcome = "resolved" =>
                    /\ Len(Entries(j)) = 2
                    /\ Entries(j)[1].name = MetaName
                    /\ Entries(j)[1].content =
                          Tagged(MetaDoc(jobs[j].dep.description), jobs[j].id)
                    /\ Entries(j)[2].name = jobs[j].dep.description
                    /\ Entries(j)[2].source = <<jobs[j].dir, jobs[j].dep.filename>>
        /\ SameDir =>
              \A i \in 1..Len(Entries(j)) :
                  Entries(j)[i].content.of # jobs[j].id => Entries(j)[i].name = MetaName

\* a has archived the meta.json that b wrote and has deleted it; b has found
\* no meta.json to archive and has failed deleting it
C16_Witness ==
    /\ SameDir
    /\ jobs["a"].outcome = "resolved"
    /\ Len(Entries("a")) = 2
    /\ Entries("a")[1].name = MetaName
    /\ Entries("a")[1].content.of = jobs["b"].id
    /\ jobs["b"].outcome = "rejected"
    /\ jobs["b"].archive.state = "finalized"
    /\ \A i \in 1..Len(Entries("b")) : Entries("b")[i].name # MetaName
    /\ jobs["b"].unlinks = <<MetadataPath(jobs["b"].dir)>>

----------------------------------------------------------------------------
(* Properties of the request bodies of importDeposit *)

\* C21: the file size in the body of the upload-negotiation request and the
\* Content-Length announced on the PUT are the same value, the size that the
\* one stat of the manuscript reported after the deposit was created and
\* before the negotiation was requested.
C21_OneSizeBothUses ==
    prog = "import" =>
        /\ manuscriptMetadata # NoMetadata =>
              /\ Has(settled, Res("create", "okId"))
              /\ manuscriptMetadata.file.size \in FileSizes
        /\ (manuscriptMetadata = NoMetadata \/ pc = "awaitMetadata") =>
              ~Has(Kinds(reqs), "negotiate")
        /\ \A i \in 1..Len(reqs) :
              /\ reqs[i].kind = "negotiate" => reqs[i].body = manuscriptMetadata
              /\ reqs[i].kind = "transfer" =>
                    /\ reqs[i].body.contentLength = manuscriptMetadata.file.size
                    /\ \A j \in 1..Len(reqs) :
                          reqs[j].kind = "negotiate" =>
                              reqs[j].body.file.size = reqs[i].body.contentLength

C21_Witness ==
    /\ prog = "import"
    /\ Len(reqs) >= 3
    /\ reqs[2].kind = "negotiate"
    /\ reqs[2].body.file.size = 1024
    /\ reqs[3].kind = "transfer"
    /\ reqs[3].body.contentLength = 1024

\* C22: the body of the create-deposit request has title, abstract,
\* disciplines and keywords of meta.json, the transformed authors, and the
\* community given by the caller, also when meta.json has a community of its
\* own; it has no manuscript field, and no other field.
C22_CreateBody ==
    prog = "import" =>
        \A i \in 1..Len(reqs) :
            reqs[i].kind = "create" =>
                LET body == reqs[i].body IN
                /\ DOMAIN body =
                      {"title", "abstract", "community", "authors", "disciplines", "keywords"}
                /\ body.title = inp.title
                /\ body.abstract = inp.abstract
                /\ body.disciplines = inp.disciplines
                /\ body.keywords = inp.keywords
                /\ body.authors = MapAuthors(inp.authors)
                /\ body.community = CommunityArg

C22_Witness ==
    /\ prog = "import"
    /\ inp.impl = "import-deposit"
    /\ inp.community = "MetaCommunity"
    /\ Len(inp.authors) = 1
    /\ Len(reqs) = 1
    /\ reqs[1].kind = "create"
    /\ reqs[1].body.community = CommunityArg
    /\ reqs[1].body.title = "Title"

----------------------------------------------------------------------------
(* Properties of the failures of importDeposit *)

\* C23: when meta.json is absent, unreadable, not valid JSON, or lacks the
\* authors list or the manuscript object, importDeposit issues no request at
\* all: it ends in its catch block with the error logged.
C23_NoRequestWithoutMetadata ==
    (prog = "import" /\ inp.meta # "ok") =>
        /\ reqs = <<>>
        /\ settled = <<>>
        /\ depositId = "none"
        /\ pc \notin {"awaitCreate", "awaitMetadata", "awaitNegotiate", "awaitTransfer", "awaitConfirm"}
        /\ (Ended /\ ArgsAccepted(prog, argv)) => logs = <<"error">>

C23_Witness ==
    /\ prog = "import"
    /\ inp.meta = "noManuscript"
    /\ pc = "settled"
    /\ logs = <<"error">>
    /\ reqs = <<>>

\* C24: importSingleDeposit throws on a non-success response and on a success
\* response without _id, and importDeposit then issues no negotiation,
\* transfer or confirm request; on success the id it returns is the _id of
\* the response, and that id is in the negotiation and the confirm URL.
C24_CreateFailuresAndId ==
    prog = "import" =>
        /\ \A r \in {"httpError", "okNoId"} :
              Has(settled, Res("create", r)) =>
                  /\ Kinds(reqs) = <<"create">>
                  /\ depositId = "none"
                  /\ Ended
                  /\ ImportFailed
        /\ Has(settled, Res("create", "okId")) => depositId = CreatedId("okId")
        /\ depositId # "none" => Has(settled, Res("create", "okId"))
        /\ \A i \in 1..Len(reqs) :
              /\ reqs[i].kind = "negotiate" =>
                    reqs[i].target = <<"API", "deposits", CreatedId("okId"), "files",
                                       "isMainFile=true", "replacePDF=false">>
              /\ reqs[i].kind = "confirm" =>
                    reqs[i].target = <<"API", "deposits", CreatedId("okId"), "files", "confirm">>

C24_Witness ==
    /\ prog = "import"
    /\ settled = <<Res("create", "okNoId")>>
    /\ Kinds(reqs) = <<"create">>
    /\ pc = "settled"

\* C25: generateManuscriptUploadUrl throws on a non-success response and also
\* when a success response carries no signedUrl, so that no transfer is
\* issued without a signed destination.
C25_NoTransferWithoutSignedUrl ==
    prog = "import" =>
        /\ Has(settled, Res("negotiate", "httpError")) => ~Has(Kinds(reqs), "transfer")
        /\ Has(settled, Res("negotiate", "okNoUrl")) =>
              /\ ~Has(Kinds(reqs), "transfer")
              /\ Ended
              /\ ImportFailed
        /\ \A i \in 1..Len(reqs) :
              reqs[i].kind = "transfer" => reqs[i].target # <<"undefined">>

-----------------------------------------------------------------------------
(* Properties of the credential headers; cred stands for the pair of headers
   x-api-key and x-api-key-user, which the code always sets together *)

ApiKinds == {"create", "negotiate", "confirm", "fetch", "location", "summary"}

\* C26, as the specification states it: every remote call, the transfer of
\* the bytes and their download included, carries the two credential headers.
C26_EveryCallCarriesCredentials ==
    \A i \in 1..Len(reqs) : reqs[i].cred

\* C26, amended: every call of the platform API (create deposit, request
\* upload target, confirm upload, fetch deposit, request file location, user
\* summary) carries the two credential headers; the transfer of the bytes and
\* their download are not calls of the platform API.
C26_ApiCallsCarryCredentials ==
    \A i \in 1..Len(reqs) :
        /\ reqs[i].kind \in ApiKinds => (reqs[i].cred /\ ToApi(reqs[i]))
        /\ reqs[i].kind \notin ApiKinds => reqs[i].kind \in {"transfer", "download"}

C26_Witness ==
    \/ /\ prog = "import"
       /\ Kinds(reqs) = <<"create", "negotiate", "transfer", "confirm">>
       /\ reqs[4].cred
    \/ /\ prog = "export"
       /\ Len(reqs) >= 2
       /\ reqs[1].kind = "fetch" /\ reqs[1].cred
       /\ reqs[2].kind = "location" /\ reqs[2].cred
    \/ /\ prog = "summary"
       /\ Len(reqs) = 1
       /\ reqs[1].cred

\* C27: the credential headers go only to paths of the platform API: the GET
\* on the location of the redirect and the PUT on the signedUrl carry none,
\* and their targets are not paths of the API.
C27_CredentialsOnlyToApi ==
    \A i \in 1..Len(reqs) :
        /\ reqs[i].cred => ToApi(reqs[i])
        /\ reqs[i].kind \in {"transfer", "download"} =>
              /\ ~reqs[i].cred
              /\ ~ToApi(reqs[i])
              /\ Len(reqs[i].target) = 1

C27_Witness ==
    /\ Len(reqs) >= 3
    /\ reqs[3].kind \in {"transfer", "download"}
    /\ ~reqs[3].cred
    /\ reqs[2].cred

-----------------------------------------------------------------------------
(* Properties of the resources of the archive stage *)

\* C28: once exportDeposit has settled after opening the archive, whether it
\* resolved or rejected, the output stream of the archive is closed and no
\* input file is left queued or open in the packager.
C28_ReleasedWhenSettled ==
    (prog = "export" /\ archive # NoArchive /\ outcome # "pending") =>
        /\ archive.state = "closed"
        /\ archive.queue = <<>>

-----------------------------------------------------------------------------
(* Properties of the report of importDeposit *)

\* C29: importDeposit logs its success exactly when the confirm request has
\* succeeded, and then create, negotiation and transfer have succeeded before
\* it, in that order; a run that failed logs the error and never the success;
\* no run logs both, and a run that has ended has logged exactly one of them.
C29_SuccessIffConfirmed ==
    prog = "import" =>
        /\ Has(logs, "success") <=> Has(settled, Res("confirm", "ok"))
        /\ Has(logs, "success") =>
              /\ Kinds(settled) = ImportStages
              /\ \A i \in 1..Len(settled) : StageOk(settled[i].kind, settled[i].status)
              /\ logs = <<"success">>
        /\ (\E i \in 1..Len(settled) : ~StageOk(settled[i].kind, settled[i].status)) =>
              logs = <<"error">>
        /\ ~(Has(logs, "success") /\ Has(logs, "error"))
        /\ Len(logs) <= 1
        /\ (Ended /\ ArgsAccepted(prog, argv)) => Len(logs) = 1
        /\ ~Ended => logs = <<>>

C29_Witness ==
    /\ prog = "import"
    /\ pc = "settled"
    /\ Has(settled, Res("confirm", "ok"))
    /\ logs = <<"success">>

-----------------------------------------------------------------------------
(* Properties of the command-line entry points *)

\* the entry point has not called its pipeline
NoPipeline ==
    /\ pc \in {"cli", "exited"}
    /\ reqs = <<>>
    /\ settled = <<>>
    /\ outcome = "pending"
    /\ pc = "exited" => exitCode = UsageExit

\* C30: an entry point that misses a positional argument exits without calling
\* its pipeline and without a request; so does the summary entry point when
\* its argument does not match dddd-dddd-dddd-ddd[dXx]; the identifier of
\* every summary request is the upper-cased form of a matching argument.
C30_UsageErrorBeforeNetwork ==
    /\ (prog \in {"import", "export"} /\ argv # "both") => NoPipeline
    /\ (prog = "summary" /\ (argv = "none" \/ ~ORCID_REGEX(argv))) => NoPipeline
    /\ \A i \in 1..Len(reqs) :
          reqs[i].kind = "summary" =>
              /\ ORCID_REGEX(argv)
              /\ reqs[i].target[4] \in {"0000-0002-1825-009X", "0000-0002-1825-0097"}
              /\ Chars(reqs[i].target[4]) =
                    [k \in 1..Len(Chars(argv)) |->
                        IF Chars(argv)[k] = "x" THEN "X" ELSE Chars(argv)[k]]

C30_Witness ==
    \/ /\ prog = "summary"
       /\ argv = "0000-0002-1825-009Y"
       /\ pc = "exited"
       /\ exitCode = UsageExit
       /\ reqs = <<>>
    \/ /\ prog = "summary"
       /\ argv = "0000-0002-1825-009x"
       /\ Len(reqs) = 1
       /\ reqs[1].target[4] = "0000-0002-1825-009X"
    \/ /\ prog = "import"
       /\ argv = "directoryOnly"
       /\ pc = "exited"
       /\ exitCode = UsageExit
       /\ reqs = <<>>

-----------------------------------------------------------------------------
(* Export followed by import: a deposit is exported, the archive is unpacked
   into an empty directory, and importDeposit is called on that directory *)

\* the Author records of a deposit on the platform; the optional ones may miss
PlatformAuthors ==
    { [firstName |-> "Ada", lastName |-> "Lovelace", nickName |-> "ada",
       email |-> "ada@example.org", orcid |-> "0000-0001"],
      [firstName |-> "Alan", lastName |-> "Turing"] }

PlatformAuthorLists == UNION { [1..n -> PlatformAuthors] : n \in 0..MaxAuthors }

\* the deposits that are exported: well formed, the manuscript under a name
\* that is neither meta.json nor the archive's
RoundTripInputs ==
    [impl : Impls, meta : {"ok"}, manuscript : {TRUE}, authors : PlatformAuthorLists,
     title : {"Title"}, abstract : {"Abstract"}, disciplines : {<<"Physics">>},
     keywords : {<<"k1", "k2">>}, community : {CommunityArg},
     filename : {"X.docx"}, description : {"X.docx", "Y.docx"},
     dirOk : {TRUE}, stale : {FALSE}]

\* the directory the entries of the archive are extracted to, by entry name
Unpacked(entries) ==
    [p \in Paths |->
        IF \E i \in 1..Len(entries) : entries[i].name = p
        THEN entries[CHOOSE i \in 1..Len(entries) :
                        /\ entries[i].name = p
                        /\ \A j \in (i + 1)..Len(entries) : entries[j].name # p].content
        ELSE Absent]

\* what loadJsonFile returns for the exported meta.json, and whether the
\* manuscript it names is in the directory
LoadedMeta(impl, doc, dir) ==
    [impl |-> impl, meta |-> "ok",
     manuscript |-> Exists(dir, dir[MetaName].mf),
     authors |-> [i \in 1..Len(doc.authors) |-> JsonAuthor(doc.authors[i])],
     title |-> doc.title, abstract |-> doc.abstract,
     disciplines |-> doc.disciplines, keywords |-> doc.keywords,
     community |-> doc.community,
     filename |-> dir[MetaName].mf, description |-> dir[MetaName].mf,
     dirOk |-> TRUE, stale |-> FALSE]

\* the archive of a finished export is unpacked and importDeposit is called on it
Unpack ==
    /\ prog = "export"
    /\ pc = "exited"
    /\ outcome = "resolved"
    /\ archive.state = "closed"
    /\ fs' = Unpacked(archive.entries)
    /\ inp' = LoadedMeta(inp.impl, ExportedDeposit(fetched), fs')
    /\ prog' = "import"
    /\ pc' = "importDeposit"
    /\ reqs' = <<>>
    /\ settled' = <<>>
    /\ outcome' = "pending"
    /\ logs' = <<>>
    /\ trace' = <<>>
    /\ unlinks' = <<>>
    /\ archive' = NoArchive
    /\ UNCHANGED <<argv, exitCode, depositId, fetched, manuscriptMetadata, jobs, disk>>

InitRoundTrip ==
    /\ prog = "export"
    /\ argv = "both"
    /\ inp \in RoundTripInputs
    /\ pc = "cli"
    /\ reqs = <<>>
    /\ settled = <<>>
    /\ outcome = "pending"
    /\ exitCode = 0
    /\ logs = <<>>
    /\ depositId = "none"
    /\ fs = InitialFs(inp)
    /\ archive = NoArchive
    /\ unlinks = <<>>
    /\ fetched = NotFetched
    /\ trace = <<>>
    /\ manuscriptMetadata = NoMetadata
    /\ jobs = <<>>
    /\ disk = <<>>

NextRoundTrip ==
    \/ CliStart
    \/ ExportStart
    \/ FetchSettles
    \/ LocationSettles
    \/ DownloadSettles
    \/ WriterFinish
    \/ WriterError
    \/ SourceError
    \/ ArchiveStart
    \/ ArchiveEntry
    \/ ArchiveEnd
    \/ Cleanup
    \/ OutputClose
    \/ CliExit
    \/ Unpack
    \/ ImportStart
    \/ CreateSettles
    \/ MetadataResumes
    \/ NegotiateSettles
    \/ TransferSettles
    \/ ConfirmSettles

SpecRoundTrip == InitRoundTrip /\ [][NextRoundTrip]_vars

\* C31: after an export and an import of the unpacked archive, the manuscript
\* that meta.json names is in the directory, and the create request has the
\* title, abstract, disciplines and keywords of the exported deposit and, one
\* for one and in order, the firstName, lastName and orcid of its authors (an
\* orcid the deposit does not have counted as the empty one).
C31_RoundTrip ==
    (prog = "import" /\ fetched.type = "deposit") =>
        /\ inp.manuscript
        /\ \A i \in 1..Len(reqs) :
              reqs[i].kind = "create" =>
                  LET body == reqs[i].body IN
                  /\ body.title = fetched.title
                  /\ body.abstract = fetched.abstract
                  /\ body.disciplines = fetched.disciplines
                  /\ body.keywords = fetched.keywords
                  /\ Len(body.authors) = Len(fetched.authors)
                  /\ \A k \in 1..Len(body.authors) :
                        /\ body.authors[k].firstName = fetched.authors[k].firstName
                        /\ body.authors[k].lastName = fetched.authors[k].lastName
                        /\ body.authors[k].orcid = OrEmpty(Get(fetched.authors[k], "orcid"))

-----------------------------------------------------------------------------
(* Properties of the files an export finds and leaves *)

\* C32: when the manuscript download fails and a file was already at the
\* manuscript path before the export, that file is neither packaged into the
\* archive nor deleted by the cleanup, and exportDeposit does not resolve.
\* (Stated for a deposit whose names collide with nothing.)
C32_NoStaleManuscript ==
    (/\ prog = "export"
     /\ inp.stale
     /\ inp.filename = "X.docx"
     /\ inp.description = "Y.docx"
     /\ DownloadFailed) =>
        /\ \A i \in 1..Len(archive.entries) : archive.entries[i].content # Stale
        /\ ~Has(unlinks, inp.filename)
        /\ outcome # "resolved"

\* C33: whenever exportDeposit has rejected, there is no file at
\* <dir>/deposit_<id>.zip.  (Stated for a deposit whose names collide with
\* nothing and an empty target directory.)
C33_NoArchiveAfterReject ==
    (PlainExport /\ outcome = "rejected") => ~Exists(fs, ZipName)

\* C34: whatever publicationFile.filename and publicationFile.description
\* are, the download never overwrites meta.json, the archive never has two
\* entries of the same name, and the cleanup never deletes the archive.
\* (Stated for an empty target directory.)
C34_NoClobbering ==
    (prog = "export" /\ ~inp.stale) =>
        /\ fs[MetaName].kind \in {"absent", "meta"}
        /\ \A i, j \in 1..Len(archive.entries) :
              i # j => archive.entries[i].name # archive.entries[j].name
        /\ ~Has(unlinks, ZipName)
        /\ fs[ZipName].kind \in {"absent", "zip"}

-----------------------------------------------------------------------------
(* Properties of termination *)

\* C35: both pipelines terminate.  No run of a pipeline is endless (every
\* request is answered and every stream ends or fails, once), so it suffices
\* that a pipeline whose promise is pending is never stuck: the process is
\* alive and a next step is possible, also after the response stream of the
\* download has failed part-way.
C35_PendingCanStep ==
    (prog \in {"import", "export"} /\ ArgsAccepted(prog, argv) /\ outcome = "pending") =>
        /\ pc # "exited"
        /\ ENABLED Next

-----------------------------------------------------------------------------
(* The importer of import.ts, run beside the importer of the import-deposit
   module on the same directory, community and remote responses: its state is
   the record jobs, and its i-th request is answered as the i-th request of
   the other importer was *)

\* import.ts before importDeposit is called
NewRunTs ==
    [pc |-> "importDeposit", reqs |-> <<>>, settled |-> <<>>, logs |-> <<>>,
     outcome |-> "pending", depositId |-> "none", manuscriptMetadata |-> NoMetadata]

\* import.ts: the catch block of importDeposit
CaughtTs(run) ==
    [run EXCEPT !.logs = Append(@, "error"), !.outcome = ImportCatch, !.pc = "settled"]

\* an import.ts whose create request carries the manuscript field
CreateReqTsWithManuscript(metaData, community) ==
    WithBody(Req("create", "POST", <<"API", "deposits", "importBasicDeposit">>, TRUE),
             Deposit(metaData, community))

\* import.ts: importSingleDeposit posts the depositMetadata as it is
CreateReqTs(metaData, community) ==
    WithBody(Req("create", "POST", <<"API", "deposits", "importBasicDeposit">>, TRUE),
             DepositMetadata(metaData, community))

\* the response to the next request of import.ts
Replayed == settled[Len(jobs.settled) + 1]

CanReplay(at) == jobs.pc = at /\ Len(jobs.settled) < Len(settled)

ImportStartTs ==
    /\ jobs.pc = "importDeposit"
    /\ jobs' = IF LoadOk(inp.meta)
               THEN [jobs EXCEPT !.reqs = Append(@, CreateReqTs(inp, CommunityArg)),
                                 !.pc = "awaitCreate"]
               ELSE CaughtTs(jobs)
    /\ UNCHANGED <<single, disk>>

\* the file is the one the other importer stats: same name, same size
CreateSettlesTs ==
    /\ CanReplay("awaitCreate")
    /\ LET r == Replayed.status
           run == [jobs EXCEPT !.settled = Append(@, Res("create", r))]
       IN jobs' = IF ImportNext("create", StageOk("create", r)) = "stat"
                  THEN IF inp.manuscript
                       THEN [run EXCEPT
                                !.depositId = CreatedId(r),
                                !.manuscriptMetadata =
                                    ManuscriptMetadata(inp.filename, manuscriptMetadata.file.size),
                                !.pc = "awaitMetadata"]
                       ELSE CaughtTs([run EXCEPT !.depositId = CreatedId(r)])
                  ELSE CaughtTs(run)
    /\ UNCHANGED <<single, disk>>

MetadataResumesTs ==
    /\ jobs.pc = "awaitMetadata"
    /\ jobs' = [jobs EXCEPT
                   !.reqs = Append(@, NegotiateReq(jobs.depositId, jobs.manuscriptMetadata)),
                   !.pc = "awaitNegotiate"]
    /\ UNCHANGED <<single, disk>>

NegotiateSettlesTs ==
    /\ CanReplay("awaitNegotiate")
    /\ LET r == Replayed.status
           run == [jobs EXCEPT !.settled = Append(@, Res("negotiate", r))]
       IN jobs' = IF ImportNext("negotiate", StageOk("negotiate", r)) = "transfer"
                  THEN [run EXCEPT
                           !.reqs = Append(@, TransferReq(NegotiateData(r), jobs.manuscriptMetadata)),
                           !.pc = "awaitTransfer"]
                  ELSE CaughtTs(run)
    /\ UNCHANGED <<single, disk>>

TransferSettlesTs ==
    /\ CanReplay("awaitTransfer")
    /\ LET r == Replayed.status
           run == [jobs EXCEPT !.settled = Append(@, Res("transfer", r))]
       IN jobs' = IF ImportNext("transfer", StageOk("transfer", r)) = "confirm"
                  THEN [run EXCEPT
                           !.reqs = Append(@, ConfirmReq(jobs.depositId,
                                                         NegotiateData(jobs.settled[2].status))),
                           !.pc = "awaitConfirm"]
                  ELSE CaughtTs(run)
    /\ UNCHANGED <<single, disk>>

ConfirmSettlesTs ==
    /\ CanReplay("awaitConfirm")
    /\ LET r == Replayed.status
           run == [jobs EXCEPT !.settled = Append(@, Res("confirm", r))]
       IN jobs' = IF ImportNext("confirm", StageOk("confirm", r)) = "success"
                  THEN [run EXCEPT !.logs = Append(@, "success"),
                                   !.outcome = "resolved",
                                   !.pc = "settled"]
                  ELSE CaughtTs(run)
    /\ UNCHANGED <<single, disk>>

InitBoth ==
    /\ prog = "import"
    /\ argv = "both"
    /\ inp \in {i \in ImportInputs : i.impl = "import-deposit"}
    /\ pc = "importDeposit"
    /\ reqs = <<>>
    /\ settled = <<>>
    /\ outcome = "pending"
    /\ exitCode = 0
    /\ logs = <<>>
    /\ depositId = "none"
    /\ fs = InitialFs(inp)
    /\ archive = NoArchive
    /\ unlinks = <<>>
    /\ fetched = NotFetched
    /\ trace = <<>>
    /\ manuscriptMetadata = NoMetadata
    /\ jobs = NewRunTs
    /\ disk = <<>>

NextBoth ==
    \/ ImportStart
    \/ CreateSettles
    \/ MetadataResumes
    \/ NegotiateSettles
    \/ TransferSettles
    \/ ConfirmSettles
    \/ ImportStartTs
    \/ CreateSettlesTs
    \/ MetadataResumesTs
    \/ NegotiateSettlesTs
    \/ TransferSettlesTs
    \/ ConfirmSettlesTs

SpecBoth == InitBoth /\ [][NextBoth]_vars

\* C36: on the same meta.json, directory, community and remote responses the
\* two importers issue the same requests in the same order (same method,
\* target, credential headers and body; the create body without a manuscript
\* field in both) and end with the same outcome, the same log and the same
\* deposit id.
C36_ImportersEquivalent ==
    /\ IsPrefix(jobs.settled, settled)
    /\ \A i \in 1..Len(jobs.reqs) : i <= Len(reqs) => jobs.reqs[i] = reqs[i]
    /\ Len(jobs.reqs) <= Len(reqs) + 1
    /\ \A i \in 1..Len(reqs) :
          reqs[i].kind = "create" => "manuscript" \notin DOMAIN reqs[i].body
    /\ \A i \in 1..Len(jobs.reqs) :
          jobs.reqs[i].kind = "create" => "manuscript" \notin DOMAIN jobs.reqs[i].body
    /\ jobs.pc = "settled" =>
          /\ Len(jobs.reqs) = Len(jobs.settled)
          /\ jobs.outcome = "resolved"
    /\ (jobs.pc = "settled" /\ pc = "settled") =>
          /\ jobs.reqs = reqs
          /\ jobs.settled = settled
          /\ jobs.outcome = outcome
          /\ jobs.logs = logs
          /\ jobs.depositId = depositId
          /\ jobs.manuscriptMetadata = manuscriptMetadata
    /\ (pc = "settled" /\ Len(jobs.settled) = Len(settled)) =>
          jobs.pc \in {"importDeposit", "settled"}

C36_Witness ==
    /\ pc = "settled"
    /\ jobs.pc = "settled"
    /\ Kinds(jobs.reqs) = ImportStages
    /\ jobs.reqs = reqs
    /\ Len(inp.authors) = 2
    /\ jobs.logs = <<"success">>

====
